---------------------------- MODULE Spec2Model ----------------------------
(***************************************************************************)
(* Model of the repository-data pipeline of the portfolio site:            *)
(*   Projects.js      listing fetch, per-repository readme fetches joined  *)
(*                    by Promise.all, publication of the list, selection   *)
(*   ProjectModal.js  readme fetch and image rewrite of the selected repo  *)
(*   RepoLanguages    languages fetch of each rendered card                *)
(* Strings are sequences of one-character strings, so that startsWith,     *)
(* includes and the regular-expression replaces are computed as the code   *)
(* computes them.                                                          *)
(***************************************************************************)
EXTENDS Integers, Sequences, FiniteSets, TLC

VARIABLES
    pc,             \* Projects: position of fetchReposAndImages
    repoResponse,   \* Projects: the listing response, once fetched
    reposData,      \* Projects: the filtered, truncated listing
    slots,          \* Projects: one promise per entry of reposData
    repos,          \* Projects: useState([])
    loading,        \* Projects: useState(true)
    nSetRepos,      \* Projects: number of setRepos calls
    fetches,        \* Projects: number of fetch() calls so far, per endpoint
    settleOrder,    \* Projects: the readme promises in the order they settled
    languages,      \* RepoLanguages: useState([]), one per rendered card
    langReqs,       \* RepoLanguages: fetchLanguages of each rendered card
    appIsLoading,   \* App: useState(true), the loading screen (isLoading)
    theme,          \* useDarkMode: useState(localStorage.getItem('theme') || 'dark')
    storedTheme,    \* localStorage: the item 'theme', or NoItem
    dataTheme,      \* document.documentElement: the attribute data-theme, or NoItem
    themePending,   \* useDarkMode: the effect of the current theme has not run yet
    innerWidth,     \* window.innerWidth
    particleCount,  \* ParticleBackground: useState(innerWidth < 768 ? 40 : 100)
    libLoaded,      \* window.particlesJS is defined
    scriptRef,      \* ParticleBackground: the script element, with its onload closure
    nScripts,       \* number of script elements appended to document.head
    lastConfig,     \* the configuration last passed to window.particlesJS
    particlesPending, \* ParticleBackground: the effect of [theme, particleCount] has not run yet
    isOpen,         \* Header: useState(false)
    scrolledTo,     \* the element last scrolled into view
    listened,       \* Cursor: the elements that carry its mouseenter/mouseleave listeners
    pointerOver,    \* the element under the pointer
    isHovering,     \* Cursor: useState(false)
    lastClick,      \* the kind of element the last click was on
    selectedRepo,   \* Projects: useState(null)
    readmeHtml,     \* ProjectModal: useState('')
    modalLoading,   \* ProjectModal: useState(true)
    modalReqs,      \* ProjectModal: the fetchReadme calls that have not returned
    nSelects,       \* number of card clicks so far
    fnStep,         \* position of the function-level specifications
    fnIn,           \* their input
    fnOut           \* their output

projectsVars ==
    <<pc, repoResponse, reposData, slots, repos, loading, nSetRepos, fetches, settleOrder>>

modalVars == <<selectedRepo, readmeHtml, modalLoading, modalReqs, nSelects>>

fnVars == <<fnStep, fnIn, fnOut>>

langVars == <<languages, langReqs>>

themeVars == <<theme, storedTheme, dataTheme, themePending>>

particleVars ==
    <<innerWidth, particleCount, libLoaded, scriptRef, nScripts, lastConfig, particlesPending>>

headerVars == <<isOpen, scrolledTo>>

cursorVars == <<listened, pointerOver, isHovering>>

appVars == <<appIsLoading, themeVars, particleVars, headerVars, cursorVars, lastClick>>

vars == <<projectsVars, modalVars, fnVars, langVars, appVars>>

---------------------------------------------------------------------------
(* Bounds of the model *)

MaxListing == 10
MaxDocLen == 3
MaxRepos == 3
MaxModalRepos == 2
MaxSelects == 3
MaxLangs == 4
MaxTokenLen == 3

MaxClickSelects == 2

---------------------------------------------------------------------------
(* Strings *)

Slash == <<"/">>
GITHUB_USERNAME == <<"t", "y", "l", "e", "r", "-", "b", "r", "a", "v", "i", "n">>
RawHost == <<"h", "t", "t", "p", "s", ":", "/", "/", "r", "a", "w", ".", "g", "i", "t", "h", "u", "b", "u", "s", "e", "r", "c", "o", "n", "t", "e", "n", "t", ".", "c", "o", "m", "/">>
Main == <<"m", "a", "i", "n">>
Http == <<"h", "t", "t", "p">>
AssetsSeg == <<"/", "a", "s", "s", "e", "t", "s", "/">>

StartsWith(s, p) == Len(s) >= Len(p) /\ SubSeq(s, 1, Len(p)) = p

Includes(s, p) == \E i \in 1..(Len(s) - Len(p) + 1) : SubSeq(s, i, i + Len(p) - 1) = p

DropFirst(s, n) == SubSeq(s, n + 1, Len(s))

\* src.replace(/^\//, '')
ReplaceLeadingSlash(s) == IF StartsWith(s, Slash) THEN DropFirst(s, 1) ELSE s

\* src.replace(/^\.?\//, '')
ReplaceLeadingDotSlash(s) ==
    IF StartsWith(s, <<".", "/">>) THEN DropFirst(s, 2)
    ELSE IF StartsWith(s, Slash) THEN DropFirst(s, 1)
    ELSE s

---------------------------------------------------------------------------
(* Repository Lister: reposData.filter(repo => !repo.fork).slice(0, 6) *)

ListLimit == 6

Slice(s, n) == SubSeq(s, 1, IF Len(s) < n THEN Len(s) ELSE n)

NotFork(repo) == ~repo.fork

\* truncation before the filter
SliceThenFilter(data) == SelectSeq(Slice(data, ListLimit), NotFork)

NonForkSlice(data) == Slice(SelectSeq(data, NotFork), ListLimit)

---------------------------------------------------------------------------
(* Readme documents: the parsed markup, a sequence of elements.  An img   *)
(* element has a src attribute or none; other elements carry text.        *)

Img(src) == [tag |-> "img", hasSrc |-> TRUE, src |-> src, text |-> ""]
ImgNoSrc == [tag |-> "img", hasSrc |-> FALSE, src |-> <<>>, text |-> ""]
Text(t) == [tag |-> "p", hasSrc |-> FALSE, src |-> <<>>, text |-> t]

\* tempDiv.querySelectorAll('img')
Images(doc) == SelectSeq(doc, LAMBDA e : e.tag = "img")

\* repo.default_branch || "main"
DefaultBranch(repo) == IF repo.default_branch = <<>> THEN Main ELSE repo.default_branch

(* List context, Projects.js *)

\* a filter that keeps every image that has a source
KeepAnyWithSrc(img) == img.hasSrc /\ img.src # <<>>

\* the filter callback: src && src.includes('/assets/')
KeepImage(img) == img.hasSrc /\ img.src # <<>> /\ Includes(img.src, AssetsSeg)

\* the map callback
ListImageUrl(repo, src) ==
    RawHost \o GITHUB_USERNAME \o Slash \o repo.name \o Slash
            \o DefaultBranch(repo) \o Slash \o ReplaceLeadingSlash(src)

ListImageUrls(repo, doc) ==
    LET kept == SelectSeq(Images(doc), KeepImage)
    IN  [k \in 1..Len(kept) |-> ListImageUrl(repo, kept[k].src)]

(* Detail context, ProjectModal.js *)

Placeholder == <<Text("Could not load README for this project.")>>

\* the forEach callback's new src
DetailImageSrc(repo, src) ==
    IF ~StartsWith(src, Http)
    THEN RawHost \o repo.owner \o Slash \o repo.name \o Slash
                 \o DefaultBranch(repo) \o Slash \o ReplaceLeadingDotSlash(src)
    ELSE src

\* img.getAttribute('src') is null for an img without src: null.startsWith throws
DetailThrows(doc) == \E i \in DOMAIN doc : doc[i].tag = "img" /\ ~doc[i].hasSrc

DetailRewriteDoc(repo, doc) ==
    [i \in DOMAIN doc |->
        IF doc[i].tag = "img"
        THEN [doc[i] EXCEPT !.src = DetailImageSrc(repo, @)]
        ELSE doc[i]]

\* what fetchReadme hands to setReadmeHtml for a decoded body
DetailHtml(repo, doc) ==
    IF DetailThrows(doc) THEN Placeholder ELSE DetailRewriteDoc(repo, doc)

---------------------------------------------------------------------------
(* Inputs of the function-level specifications *)

SrcDotAssets == <<".", "/", "a", "s", "s", "e", "t", "s", "/", "a", ".", "p", "n", "g">>
SrcSlashAssets == <<"/", "a", "s", "s", "e", "t", "s", "/", "b", ".", "p", "n", "g">>
SrcDocsAssets == <<"d", "o", "c", "s", "/", "a", "s", "s", "e", "t", "s", "/", "c", ".", "p", "n", "g">>
SrcPlainAssets == <<"a", "s", "s", "e", "t", "s", "/", "d", ".", "p", "n", "g">>
SrcHttpsAssets == <<"h", "t", "t", "p", "s", ":", "/", "/", "x", ".", "i", "o", "/", "a", "s", "s", "e", "t", "s", "/", "e", ".", "p", "n", "g">>
SrcBadge == <<"h", "t", "t", "p", "s", ":", "/", "/", "s", ".", "i", "o", "/", "b", ".", "s", "v", "g">>
SrcHttpdAssets == <<"h", "t", "t", "p", "d", "/", "a", "s", "s", "e", "t", "s", "/", "f", ".", "p", "n", "g">>
SrcData == <<"d", "a", "t", "a", ":", ",", "x">>
SrcDotLogo == <<".", "/", "l", "o", "g", "o", ".", "p", "n", "g">>
Dev == <<"d", "e", "v">>
R1 == <<"r", "1">>

Sources ==
    { SrcDotAssets, SrcSlashAssets, SrcDocsAssets, SrcPlainAssets, SrcHttpsAssets,
      SrcBadge, SrcHttpdAssets, SrcData, SrcDotLogo, <<>> }

Elements == {Img(s) : s \in Sources} \cup {ImgNoSrc, Text("intro")}

Docs == UNION {[1..n -> Elements] : n \in 0..MaxDocLen}

Repo(id, name, branch, fork) ==
    [id |-> id, name |-> name, owner |-> GITHUB_USERNAME,
     default_branch |-> branch, fork |-> fork]

RewriteRepos == {Repo(1, R1, b, FALSE) : b \in {<<>>, Dev}}

Listings ==
    UNION {{[i \in 1..n |-> [id |-> i, fork |-> f[i]]] : f \in [1..n -> BOOLEAN]}
           : n \in 0..MaxListing}

---------------------------------------------------------------------------
(* The remote: what the listing and readme endpoints may answer *)

RepoName(id) == <<"r", ToString(id)>>

\* a listing of n repositories, newest first, some of them forks
MountListings ==
    UNION {{[i \in 1..n |-> Repo(i, RepoName(i), <<>>, f[i])] : f \in [1..n -> BOOLEAN]}
           : n \in 0..MaxRepos}

\* fetch() of the listing: rejected, or a response whose body is a JSON
\* list, a JSON object or not JSON at all. The body of a non-success
\* response of the listing endpoint is an error object ({"message": ...})
\* or not JSON; the body of a success is a list unless it was damaged.
ListingOutcomes ==
    {[rejected |-> TRUE, ok |-> FALSE, kind |-> "none", list |-> <<>>]}
        \cup {[rejected |-> FALSE, ok |-> o, kind |-> k, list |-> <<>>]
                    : o \in BOOLEAN, k \in {"object", "invalid"}}
        \cup {[rejected |-> FALSE, ok |-> TRUE, kind |-> "list", list |-> l] : l \in MountListings}

\* the readme documents the remote may hold for a repository
ReadmeDocs(repo) ==
    LET title == Text("README of " \o ToString(repo.id))
    IN  { <<title>>, <<title, Img(SrcBadge), Img(SrcDotAssets)>> }

ErrorDoc == <<Text("Not Found")>>

\* fetch() of a readme: rejected, a non-success response, or a success
ReadmeOutcomes(repo) ==
    {[rejected |-> TRUE, ok |-> FALSE, doc |-> <<>>]}
        \cup {[rejected |-> FALSE, ok |-> FALSE, doc |-> ErrorDoc]}
        \cup {[rejected |-> FALSE, ok |-> TRUE, doc |-> d] : d \in ReadmeDocs(repo)}

---------------------------------------------------------------------------
(* RepoLanguages: the languages endpoint and the tags of a card.  A JSON  *)
(* object is the sequence of its members in the order of the body.        *)

TagLimit == 3

LanguageNames == <<"JavaScript", "CSS", "HTML", "Shell", "Dockerfile", "Makefile">>

\* the language mapping of a repository: n languages with their byte counts
LanguageMap(first, n) ==
    [k \in 1..n |->
        [key |-> LanguageNames[((first + k - 2) % Len(LanguageNames)) + 1],
         value |-> (n - k + 1) * 100]]

LanguageMaps(repo) == {LanguageMap(repo.id, n) : n \in 0..MaxLangs}

\* the body of a non-success response of the API
ErrorBody ==
    <<[key |-> "message", value |-> "Bad credentials"],
      [key |-> "documentation_url", value |-> "https://docs.github.com/rest"]>>

\* fetch() of the languages: rejected, a non-success response with the
\* error object, a response whose body is not JSON, or the mapping
LanguagesOutcomes(repo) ==
    {[rejected |-> TRUE, ok |-> FALSE, kind |-> "none", data |-> <<>>]}
        \cup {[rejected |-> FALSE, ok |-> FALSE, kind |-> "object", data |-> ErrorBody]}
        \cup {[rejected |-> FALSE, ok |-> o, kind |-> "invalid", data |-> <<>>] : o \in BOOLEAN}
        \cup {[rejected |-> FALSE, ok |-> TRUE, kind |-> "object", data |-> m]
                    : m \in LanguageMaps(repo)}

\* Object.keys of an object whose keys are not integer-like
ObjectKeys(data) == [k \in DOMAIN data |-> data[k].key]

\* the last three keys
LastLanguages(data) ==
    LET keys == ObjectKeys(data)
    IN  SubSeq(keys, IF Len(keys) > TagLimit THEN Len(keys) - TagLimit + 1 ELSE 1, Len(keys))

\* Object.keys(data).slice(0, 3)
TopLanguages(data) == Slice(ObjectKeys(data), TagLimit)

\* what RepoLanguages renders: nothing, or the list of tags
RenderLanguages(tags) == IF Len(tags) = 0 THEN <<>> ELSE <<[ul |-> tags]>>

PendingLang == [st |-> "fetch", resp |-> <<>>]

\* a fetchLanguages call that has returned
DoneLang(resp) == [st |-> "done", resp |-> resp]

\* fetchLanguages from the first await to the second
LangAfterFetch(out) == IF out.rejected THEN DoneLang(<<>>) ELSE [st |-> "json", resp |-> <<out>>]

\* no card is rendered
LangIdle ==
    /\ languages = <<>>
    /\ langReqs = <<>>

---------------------------------------------------------------------------
(* App.js: the theme, the particle background, the header and the cursor   *)

\* null in the place of an object: no script element, no configuration
NoValue == [none |-> TRUE]

\* null in the place of a string: no storage item, no attribute, no element
NoItem == "<null>"

\* null in the place of a repository: no card is selected
NoRepo == [id |-> 0]

Dark == "dark"

Light == "light"

\* the page before these components act: used by the specifications of
\* the repository pipeline
AppIdle ==
    /\ appIsLoading = TRUE
    /\ theme = Dark
    /\ storedTheme = NoItem
    /\ dataTheme = NoItem
    /\ themePending = FALSE
    /\ innerWidth = 1024
    /\ particleCount = 100
    /\ libLoaded = FALSE
    /\ scriptRef = NoValue
    /\ nScripts = 0
    /\ lastConfig = NoValue
    /\ particlesPending = FALSE
    /\ isOpen = FALSE
    /\ scrolledTo = NoItem
    /\ listened = {}
    /\ pointerOver = NoItem
    /\ isHovering = FALSE
    /\ lastClick = NoItem

(* useDarkMode *)

\* what localStorage may hold under 'theme' when the page starts
StoredContents == {NoItem, "", Light, Dark, "blue"}

\* an initial theme that ignores the stored preference
InitialThemeAlwaysDark(item) == Dark

\* localStorage.getItem('theme') || 'dark': null and '' are falsy
InitialTheme(item) == IF item = NoItem \/ item = "" THEN Dark ELSE item

\* toggleTheme
Toggled(t) == IF t = Light THEN Dark ELSE Light

(* ParticleBackground *)

MobileWidth == 768

FewParticles == 40

ManyParticles == 100

Widths == {500, 767, 768, 1024}

\* window.innerWidth < 768 ? 40 : 100
CountFor(width) == IF width < MobileWidth THEN FewParticles ELSE ManyParticles

\* particleColor and lineColor
ColorsFor(t) ==
    IF t = Light
    THEN [particle |-> "#352f44", line |-> "#5c5470"]
    ELSE [particle |-> "#ccd6f6", line |-> "#8892b0"]

\* the configuration initializeParticles passes, as far as it varies
ParticlesConfig(t, count) == [number |-> count, color |-> ColorsFor(t)]

\* an effect that appends the script whenever the library is missing
AppendsScriptAlways(loaded, ref) == ~loaded

\* else if (!scriptRef.current), reached when window.particlesJS is missing
AppendsScript(loaded, ref) == ~loaded /\ ref = NoValue

(* Header *)

NavIds == {"about", "experience", "projects", "contact"}

\* a scrollTo that closes the menu only when it found the element
MenuAfterScrollToFound(open, found) == IF found THEN FALSE ELSE open

\* scrollTo: setIsOpen(false), whether or not the element was found
MenuAfterScrollTo(open, found) == FALSE

(* Cursor *)

\* the links and buttons of the components that render the same elements
\* for as long as the page lives: Header, ThemeSwitcher, Hero
StaticElements == {"navButton", "themeSwitcher", "cvLink"}

\* the div of class project-card of the i-th card
CardElement(i) == <<"card1", "card2", "card3", "card4">>[i]

\* the two close buttons and the link of an open ProjectModal
ModalElements == {"closeButton", "githubLink", "closeButtonBottom"}

\* a place of the page that matches none of 'a, button, .project-card'
Page == "page"

\* document.querySelectorAll('a, button, .project-card') over the page as
\* rendered with Projects in the given state
QuerySelectorAll(isLoading, rs, selected) ==
    StaticElements
        \cup (IF isLoading THEN {} ELSE {CardElement(i) : i \in DOMAIN rs})
        \cup (IF isLoading \/ selected = NoRepo THEN {} ELSE ModalElements)

\* App has mounted and shows the loading screen; the effect of useDarkMode
\* has not run yet
AppInit ==
    /\ appIsLoading = TRUE
    /\ storedTheme \in StoredContents
    /\ theme = InitialTheme(storedTheme)
    /\ dataTheme = NoItem
    /\ themePending = TRUE
    /\ innerWidth \in Widths
    /\ particleCount = CountFor(innerWidth)
    /\ libLoaded = FALSE
    /\ scriptRef = NoValue
    /\ nScripts = 0
    /\ lastConfig = NoValue
    /\ particlesPending = FALSE
    /\ isOpen = FALSE
    /\ scrolledTo = NoItem
    /\ listened = {}
    /\ pointerOver = NoItem
    /\ isHovering = FALSE
    /\ lastClick = NoItem

\* the passive effects of the last commit run, children first: the effect
\* of ParticleBackground, then the effect of useDarkMode; in the commit that
\* mounts Cursor, its effect attaches the listeners
RunEffects ==
    /\ themePending \/ particlesPending
    /\ IF particlesPending
       THEN IF libLoaded
            THEN /\ lastConfig' = ParticlesConfig(theme, particleCount)
                 /\ UNCHANGED <<scriptRef, nScripts>>
            ELSE IF AppendsScript(libLoaded, scriptRef)
            THEN /\ scriptRef' = [onload |-> ParticlesConfig(theme, particleCount)]
                 /\ nScripts' = nScripts + 1
                 /\ UNCHANGED lastConfig
            ELSE UNCHANGED <<lastConfig, scriptRef, nScripts>>
       ELSE UNCHANGED <<lastConfig, scriptRef, nScripts>>
    /\ IF themePending
       THEN storedTheme' = theme /\ dataTheme' = theme
       ELSE UNCHANGED <<storedTheme, dataTheme>>
    /\ listened' = IF ~appIsLoading /\ listened = {}
                    THEN QuerySelectorAll(loading, repos, selectedRepo)
                    ELSE listened
    /\ themePending' = FALSE
    /\ particlesPending' = FALSE
    /\ UNCHANGED <<appIsLoading, theme, innerWidth, particleCount, libLoaded>>
    /\ UNCHANGED <<pointerOver, isHovering>>
    /\ UNCHANGED <<headerVars, projectsVars, modalVars, fnVars, langVars>>
    /\ UNCHANGED lastClick

\* the timer of App fires: setIsLoading(false); ParticleBackground and
\* Header mount, with the particle count of the current width
LoaderTimeout ==
    /\ appIsLoading
    /\ ~themePending
    /\ appIsLoading' = FALSE
    /\ particleCount' = CountFor(innerWidth)
    /\ particlesPending' = TRUE
    /\ UNCHANGED <<theme, storedTheme, dataTheme, themePending, innerWidth, libLoaded,
                   scriptRef, nScripts, lastConfig>>
    /\ UNCHANGED <<headerVars, cursorVars, projectsVars, modalVars, fnVars, langVars>>
    /\ UNCHANGED lastClick

\* a click on a ThemeSwitcher button: toggleTheme; App re-renders with the
\* new theme and both effects are scheduled
ToggleTheme ==
    /\ ~appIsLoading
    /\ ~themePending /\ ~particlesPending
    /\ theme' = Toggled(theme)
    /\ themePending' = TRUE
    /\ particlesPending' = TRUE
    /\ UNCHANGED <<appIsLoading, storedTheme, dataTheme, innerWidth, particleCount, libLoaded,
                   scriptRef, nScripts, lastConfig>>
    /\ UNCHANGED <<headerVars, cursorVars, projectsVars, modalVars, fnVars, langVars>>
    /\ lastClick' = "themeSwitcher"

\* the window is resized: handleResize sets the particle count; the effect
\* is scheduled when the count changed
Resize(w) ==
    /\ ~themePending /\ ~particlesPending
    /\ w # innerWidth
    /\ innerWidth' = w
    /\ IF appIsLoading
       THEN UNCHANGED <<particleCount, particlesPending>>
       ELSE /\ particleCount' = CountFor(w)
            /\ particlesPending' = (CountFor(w) # particleCount)
    /\ UNCHANGED <<appIsLoading, theme, storedTheme, dataTheme, themePending, libLoaded,
                   scriptRef, nScripts, lastConfig>>
    /\ UNCHANGED <<headerVars, cursorVars, projectsVars, modalVars, fnVars, langVars>>
    /\ UNCHANGED lastClick

\* the appended script has loaded: window.particlesJS is defined and
\* script.onload runs the initializeParticles it was given
ScriptLoads ==
    /\ scriptRef # NoValue
    /\ ~libLoaded
    /\ libLoaded' = TRUE
    /\ lastConfig' = scriptRef.onload
    /\ UNCHANGED <<appIsLoading, themeVars, innerWidth, particleCount, scriptRef, nScripts,
                   particlesPending>>
    /\ UNCHANGED <<headerVars, cursorVars, projectsVars, modalVars, fnVars, langVars>>
    /\ UNCHANGED lastClick

\* a click on the hamburger: setIsOpen(!isOpen)
ClickHamburger ==
    /\ ~appIsLoading
    /\ isOpen' = ~isOpen
    /\ UNCHANGED <<scrolledTo, appIsLoading, themeVars, particleVars, cursorVars>>
    /\ UNCHANGED <<projectsVars, modalVars, fnVars, langVars>>
    /\ lastClick' = "hamburger"

\* a click on a navigation button: scrollTo(id); document.getElementById
\* finds the element or returns null
ClickNavLink(id, found) ==
    /\ ~appIsLoading
    /\ scrolledTo' = IF found THEN id ELSE scrolledTo
    /\ isOpen' = MenuAfterScrollTo(isOpen, found)
    /\ UNCHANGED <<appIsLoading, themeVars, particleVars, cursorVars>>
    /\ UNCHANGED <<projectsVars, modalVars, fnVars, langVars>>
    /\ lastClick' = "navButton"

---------------------------------------------------------------------------
(* Projects.js: fetchReposAndImages *)

PendingSlot == [st |-> "fetch", resp |-> <<>>, fail |-> "", imageUrls |-> <<>>]

\* a callback that issues the readme request again after a rejection
SlotAfterFetchRetry(out) ==
    IF out.rejected
    THEN [st |-> "fetch", resp |-> <<>>, fail |-> "retry", imageUrls |-> <<>>]
    ELSE IF ~out.ok
    THEN [st |-> "settled", resp |-> <<out>>, fail |-> "status", imageUrls |-> <<>>]
    ELSE [st |-> "text", resp |-> <<out>>, fail |-> "", imageUrls |-> <<>>]

\* the map callback from the first await to the second
SlotAfterFetch(out) ==
    IF out.rejected
    THEN [st |-> "settled", resp |-> <<>>, fail |-> "fetch", imageUrls |-> <<>>]
    ELSE IF ~out.ok
    THEN [st |-> "settled", resp |-> <<out>>, fail |-> "status", imageUrls |-> <<>>]
    ELSE [st |-> "text", resp |-> <<out>>, fail |-> "", imageUrls |-> <<>>]

\* the map callback after await readmeResponse.text()
SlotAfterText(repo, slot, resolved) ==
    IF resolved
    THEN [slot EXCEPT !.st = "settled", !.imageUrls = ListImageUrls(repo, slot.resp[1].doc)]
    ELSE [slot EXCEPT !.st = "settled", !.fail = "text"]

\* the order of settlement, once promise i has taken a step
Settled(order, ss, i) == IF ss[i].st = "settled" THEN Append(order, i) ELSE order

\* { ...repo, imageUrls: urls }
WithImages(repo, urls) ==
    [id |-> repo.id, name |-> repo.name, owner |-> repo.owner,
     default_branch |-> repo.default_branch, fork |-> repo.fork, imageUrls |-> urls]

\* a join that returns with the first settled promise
AnySettled(ss) == ss = <<>> \/ \E i \in DOMAIN ss : ss[i].st = "settled"

\* Promise.all resolves once every promise has
AllSettled(ss) == \A i \in DOMAIN ss : ss[i].st = "settled"

\* a list that leaves out the repositories whose readme failed
ReposWithImagesDropFailed(rd, ss) ==
    LET ok == {i \in DOMAIN ss : ss[i].fail = ""}
    IN  [k \in 1..Cardinality(ok) |->
            LET i == CHOOSE j \in ok : Cardinality({m \in ok : m <= j}) = k
            IN  WithImages(rd[i], ss[i].imageUrls)]

\* a list collected in the order in which the callbacks returned
ReposWithImagesByArrival(rd, ss) ==
    [k \in DOMAIN rd |-> WithImages(rd[settleOrder[k]], ss[settleOrder[k]].imageUrls)]

\* the value of Promise.all: the callbacks' results in the order of reposData
ReposWithImages(rd, ss) == [i \in DOMAIN rd |-> WithImages(rd[i], ss[i].imageUrls)]

ProjectsInit ==
    /\ pc = "fetchList"
    /\ repoResponse = <<>>
    /\ reposData = <<>>
    /\ slots = <<>>
    /\ repos = <<>>
    /\ loading = TRUE
    /\ nSetRepos = 0
    /\ fetches = [listing |-> 1, readme |-> 0, languages |-> 0]
    /\ settleOrder = <<>>

\* a throw that nothing catches: fetchReposAndImages ends where it threw
ListingFailedUncaught ==
    /\ pc' = "done"
    /\ UNCHANGED <<reposData, slots, repos, loading, nSetRepos, fetches, settleOrder>>

\* a catch that issues the listing request a second time
ListingFailedRetryOnce ==
    IF fetches.listing < 2
    THEN /\ pc' = "fetchList"
         /\ fetches' = [fetches EXCEPT !.listing = fetches.listing + 1]
         /\ UNCHANGED <<reposData, slots, repos, loading, nSetRepos, settleOrder>>
    ELSE /\ pc' = "done"
         /\ loading' = FALSE
         /\ UNCHANGED <<reposData, slots, repos, nSetRepos, fetches, settleOrder>>

\* catch (error) { console.error } finally { setLoading(false) }
ListingFailed ==
    /\ pc' = "done"
    /\ loading' = FALSE
    /\ UNCHANGED <<reposData, slots, repos, nSetRepos, fetches, settleOrder>>

\* await fetch(.../repos?sort=updated&direction=desc) returns or throws
ListingFetchSettles ==
    /\ pc = "fetchList"
    /\ \E out \in ListingOutcomes :
          IF out.rejected
          THEN ListingFailed /\ UNCHANGED repoResponse
          ELSE /\ pc' = "jsonList"
               /\ repoResponse' = <<out>>
               /\ UNCHANGED <<reposData, slots, repos, loading, nSetRepos, fetches, settleOrder>>
    /\ UNCHANGED <<modalVars, fnVars, langVars, appVars>>

\* await repoResponse.json() returns or throws; filter, slice, start the readme fetches
ListingJsonSettles ==
    /\ pc = "jsonList"
    /\ IF repoResponse[1].kind = "list"
       THEN /\ reposData' = NonForkSlice(repoResponse[1].list)
            /\ slots' = [i \in DOMAIN reposData' |-> PendingSlot]
            /\ fetches' = [fetches EXCEPT !.readme = Len(reposData')]
            /\ pc' = "awaitAll"
            /\ UNCHANGED <<repos, loading, nSetRepos, settleOrder>>
       ELSE ListingFailed
    /\ UNCHANGED <<repoResponse, modalVars, fnVars, langVars, appVars>>

\* await fetch(.../readme) of one repository returns or throws
ReadmeFetchSettles(i) ==
    /\ pc = "awaitAll"
    /\ slots[i].st = "fetch"
    /\ \E out \in ReadmeOutcomes(reposData[i]) :
          slots' = [slots EXCEPT ![i] = SlotAfterFetch(out)]
    /\ settleOrder' = Settled(settleOrder, slots', i)
    /\ UNCHANGED <<pc, repoResponse, reposData, repos, loading, nSetRepos, fetches>>
    /\ UNCHANGED <<modalVars, fnVars, langVars, appVars>>

\* await readmeResponse.text() of one repository returns or throws
ReadmeTextSettles(i) ==
    /\ pc = "awaitAll"
    /\ slots[i].st = "text"
    /\ \E resolved \in BOOLEAN :
          slots' = [slots EXCEPT ![i] = SlotAfterText(reposData[i], slots[i], resolved)]
    /\ settleOrder' = Settled(settleOrder, slots', i)
    /\ UNCHANGED <<pc, repoResponse, reposData, repos, loading, nSetRepos, fetches>>
    /\ UNCHANGED <<modalVars, fnVars, langVars, appVars>>

\* a success path that never reaches setLoading(false)
PublishReposKeepsLoading ==
    /\ pc = "awaitAll"
    /\ AllSettled(slots)
    /\ repos' = ReposWithImages(reposData, slots)
    /\ nSetRepos' = nSetRepos + 1
    /\ pc' = "done"
    /\ languages' = <<>>
    /\ langReqs' = <<>>
    /\ UNCHANGED <<repoResponse, reposData, slots, loading, fetches, settleOrder>>
    /\ UNCHANGED <<modalVars, fnVars, appVars>>

\* await Promise.all(...) returns; setRepos(reposWithImages); finally
\* setLoading(false); the cards render, and the effect of each card's
\* RepoLanguages starts its languages request
PublishRepos ==
    /\ pc = "awaitAll"
    /\ AllSettled(slots)
    /\ repos' = ReposWithImages(reposData, slots)
    /\ nSetRepos' = nSetRepos + 1
    /\ loading' = FALSE
    /\ pc' = "done"
    /\ languages' = [i \in DOMAIN repos' |-> <<>>]
    /\ langReqs' = [i \in DOMAIN repos' |-> PendingLang]
    /\ fetches' = [fetches EXCEPT !.languages = Len(repos')]
    /\ UNCHANGED <<repoResponse, reposData, slots, settleOrder, modalVars, fnVars, appVars>>

\* what Projects renders: the loading paragraph, or the section with one
\* card per entry of repos and the modal of the selected repository
ProjectsRender(isLoading, rs, selected) ==
    IF isLoading
    THEN [view |-> "loading", cards |-> <<>>, modal |-> NoRepo]
    ELSE [view |-> "section", cards |-> rs, modal |-> selected]

---------------------------------------------------------------------------
(* ProjectModal.js *)

\* what ProjectModal renders: nothing, or the modal of the repository with
\* the loading paragraph or the readme
ModalRender(repo, isLoading, html) ==
    IF repo = NoRepo
    THEN <<>>
    ELSE <<[title |-> repo.name,
            body |-> IF isLoading THEN <<Text("Loading README...")>> ELSE html]>>

ModalInit ==
    /\ selectedRepo = NoRepo
    /\ readmeHtml = <<>>
    /\ modalLoading = TRUE
    /\ modalReqs = {}
    /\ nSelects = 0

\* a click whose selection starts no request (an effect that runs at the
\* mount only)
ClickCardNoFetch(i) ==
    /\ ~loading
    /\ i \in DOMAIN repos
    /\ selectedRepo = NoRepo
    /\ nSelects < MaxSelects
    /\ selectedRepo' = repos[i]
    /\ nSelects' = nSelects + 1
    /\ UNCHANGED <<readmeHtml, modalLoading, modalReqs, projectsVars, fnVars, langVars, appVars>>

\* Projects.js: a click on a rendered card, setSelectedRepo(repo); then the
\* modal's effect runs for the new repo: setLoading(true) and the fetch.
\* While the modal is open its backdrop takes the clicks outside its content.
ClickCard(i) ==
    /\ ~loading
    /\ i \in DOMAIN repos
    /\ selectedRepo = NoRepo
    /\ nSelects < MaxSelects
    /\ selectedRepo' = repos[i]
    /\ nSelects' = nSelects + 1
    /\ modalLoading' = TRUE
    /\ modalReqs' = modalReqs \cup {[n |-> nSelects + 1, repo |-> repos[i], st |-> "fetch", resp |-> <<>>]}
    /\ UNCHANGED <<readmeHtml, projectsVars, fnVars, langVars, appVars>>

\* onClose: the backdrop, the close button or the bottom close button;
\* the effect runs with repo = null and returns at once
CloseModal ==
    /\ selectedRepo # NoRepo
    /\ selectedRepo' = NoRepo
    /\ UNCHANGED <<readmeHtml, modalLoading, modalReqs, nSelects, projectsVars, fnVars, langVars, appVars>>

\* await fetch(.../readme) of a fetchReadme call returns or throws;
\* on a throw: catch, setReadmeHtml(placeholder), finally setLoading(false)
ModalFetchSettles(r) ==
    /\ r \in modalReqs
    /\ r.st = "fetch"
    /\ \E out \in ReadmeOutcomes(r.repo) :
          IF out.rejected
          THEN /\ readmeHtml' = Placeholder
               /\ modalLoading' = FALSE
               /\ modalReqs' = modalReqs \ {r}
          ELSE /\ modalReqs' = (modalReqs \ {r}) \cup {[r EXCEPT !.st = "text", !.resp = <<out>>]}
               /\ UNCHANGED <<readmeHtml, modalLoading>>
    /\ UNCHANGED <<selectedRepo, nSelects, projectsVars, fnVars, langVars, appVars>>

\* await readmeResponse.text() returns or throws; rewrite the images;
\* setReadmeHtml; finally setLoading(false)
ModalTextSettles(r) ==
    /\ r \in modalReqs
    /\ r.st = "text"
    /\ \E resolved \in BOOLEAN :
          readmeHtml' = IF resolved THEN DetailHtml(r.repo, r.resp[1].doc) ELSE Placeholder
    /\ modalLoading' = FALSE
    /\ modalReqs' = modalReqs \ {r}
    /\ UNCHANGED <<selectedRepo, nSelects, projectsVars, fnVars, langVars, appVars>>

---------------------------------------------------------------------------
(* Spec: one mount of Projects, from the listing request to the published list *)

FnIdle ==
    /\ fnStep = "none"
    /\ fnIn = <<>>
    /\ fnOut = <<>>

Init == ProjectsInit /\ ModalInit /\ FnIdle /\ LangIdle /\ AppIdle

Next ==
    \/ ListingFetchSettles
    \/ ListingJsonSettles
    \/ \E i \in DOMAIN slots : ReadmeFetchSettles(i)
    \/ \E i \in DOMAIN slots : ReadmeTextSettles(i)
    \/ PublishRepos

Spec == Init /\ [][Next]_vars

\* every issued request settles, and a continuation that can run does run
RequestsSettle ==
    /\ WF_vars(ListingFetchSettles)
    /\ WF_vars(ListingJsonSettles)
    /\ \A i \in 1..MaxRepos : WF_vars(i \in DOMAIN slots /\ ReadmeFetchSettles(i))
    /\ \A i \in 1..MaxRepos : WF_vars(i \in DOMAIN slots /\ ReadmeTextSettles(i))
    /\ WF_vars(PublishRepos)

SpecLive == Init /\ [][Next]_vars /\ RequestsSettle

---------------------------------------------------------------------------
(* SpecModal: the detail view over a published list *)

\* the state of Projects after a mount whose listing held n repositories,
\* none a fork, and whose readme requests were all rejected
Published(n) ==
    LET l == [i \in 1..n |-> Repo(i, RepoName(i), <<>>, FALSE)]
        failed == [st |-> "settled", resp |-> <<>>, fail |-> "fetch", imageUrls |-> <<>>]
    IN  /\ pc = "done"
        /\ repoResponse = <<[rejected |-> FALSE, ok |-> TRUE, kind |-> "list", list |-> l]>>
        /\ reposData = l
        /\ slots = [i \in 1..n |-> failed]
        /\ repos = [i \in 1..n |-> WithImages(l[i], <<>>)]
        /\ loading = FALSE
        /\ nSetRepos = 1
        /\ fetches = [listing |-> 1, readme |-> n, languages |-> n]
        /\ settleOrder = [i \in 1..n |-> i]

\* the cards of a published list whose languages requests were all rejected
LangRejected(n) ==
    /\ languages = [i \in 1..n |-> <<>>]
    /\ langReqs = [i \in 1..n |-> DoneLang(<<>>)]

InitModal ==
    /\ \E n \in 1..MaxModalRepos : Published(n) /\ LangRejected(n)
    /\ ModalInit
    /\ FnIdle
    /\ AppIdle

NextModal ==
    \/ \E i \in 1..MaxModalRepos : ClickCard(i)
    \/ CloseModal
    \/ \E r \in modalReqs : ModalFetchSettles(r)
    \/ \E r \in modalReqs : ModalTextSettles(r)

SpecModal == InitModal /\ [][NextModal]_vars

---------------------------------------------------------------------------
(* SpecClicks: the clicks on the cards and on the modal, dispatched along  *)
(* the path from the clicked element up to the root                        *)

ClickTargets ==
    {"card", "carousel", "backdrop", "modalContent", "closeButton", "githubLink",
     "closeButtonBottom"}

\* the onClick handlers on the path from the clicked element outwards:
\* "select" is setSelectedRepo(repo), "close" is onClose, "stop" is
\* e.stopPropagation()
ClickPath(target) ==
    CASE target = "card" -> <<"select">>
      [] target = "carousel" -> <<"stop", "select">>
      [] target = "backdrop" -> <<"close">>
      [] target = "modalContent" -> <<"stop", "close">>
      [] target = "closeButton" -> <<"close", "stop", "close">>
      [] target = "githubLink" -> <<"stop", "close">>
      [] target = "closeButtonBottom" -> <<"close", "stop", "close">>

\* a dispatch in which stopPropagation stops nothing
DispatchedThroughStop(path) == SelectSeq(path, LAMBDA h : h # "stop")

\* the handlers that run: those before the first stopPropagation
Dispatched(path) ==
    LET stops == {k \in DOMAIN path : path[k] = "stop"}
        first == IF stops = {} THEN Len(path) + 1
                 ELSE CHOOSE k \in stops : \A m \in stops : k <= m
    IN  SubSeq(path, 1, first - 1)

\* selectedRepo after the handlers ran: the last state update wins
SelectedAfter(ran, selected, repo) ==
    IF ran = <<>> THEN selected
    ELSE IF ran[Len(ran)] = "select" THEN repo
    ELSE NoRepo

\* the element is on the page and nothing covers it: the cards while no
\* modal is open, a carousel on a card with images, the modal's elements
\* while it is open
Clickable(target, i) ==
    /\ ~loading
    /\ i \in DOMAIN repos
    /\ CASE target = "card" -> selectedRepo = NoRepo
         [] target = "carousel" -> selectedRepo = NoRepo /\ repos[i].imageUrls # <<>>
         [] OTHER -> selectedRepo # NoRepo /\ i = 1

\* a click on an element of card i or of the modal; when it selects a
\* repository the effect of ProjectModal runs for it: setLoading(true) and
\* the fetch
Click(target, i) ==
    /\ Clickable(target, i)
    /\ lastClick' = target
    /\ LET next == SelectedAfter(Dispatched(ClickPath(target)), selectedRepo, repos[i])
       IN  /\ selectedRepo' = next
           /\ IF next # selectedRepo /\ next # NoRepo
              THEN /\ nSelects < MaxClickSelects
                   /\ nSelects' = nSelects + 1
                   /\ modalLoading' = TRUE
                   /\ modalReqs' = modalReqs \cup
                         {[n |-> nSelects + 1, repo |-> next, st |-> "fetch", resp |-> <<>>]}
              ELSE UNCHANGED <<nSelects, modalLoading, modalReqs>>
    /\ UNCHANGED <<readmeHtml, projectsVars, fnVars, langVars>>
    /\ UNCHANGED <<appIsLoading, themeVars, particleVars, headerVars, cursorVars>>

\* the state of Projects after a mount whose listing held n repositories,
\* none a fork, where the readme of the first carried a badge and an image
\* under assets and the readme requests of the others were rejected
PublishedWithImages(n) ==
    LET l == [i \in 1..n |-> Repo(i, RepoName(i), <<>>, FALSE)]
        doc == CHOOSE d \in ReadmeDocs(l[1]) : Images(d) # <<>>
        out == [rejected |-> FALSE, ok |-> TRUE, doc |-> doc]
        loaded == SlotAfterText(l[1], SlotAfterFetch(out), TRUE)
        failed == [st |-> "settled", resp |-> <<>>, fail |-> "fetch", imageUrls |-> <<>>]
        ss == [i \in 1..n |-> IF i = 1 THEN loaded ELSE failed]
    IN  /\ pc = "done"
        /\ repoResponse = <<[rejected |-> FALSE, ok |-> TRUE, kind |-> "list", list |-> l]>>
        /\ reposData = l
        /\ slots = ss
        /\ repos = ReposWithImages(l, ss)
        /\ loading = FALSE
        /\ nSetRepos = 1
        /\ fetches = [listing |-> 1, readme |-> n, languages |-> n]
        /\ settleOrder = [i \in 1..n |-> i]

InitClicks ==
    /\ \E n \in 1..MaxModalRepos : PublishedWithImages(n) /\ LangRejected(n)
    /\ ModalInit
    /\ FnIdle
    /\ AppIdle

NextClicks ==
    \/ \E target \in ClickTargets, i \in 1..MaxModalRepos : Click(target, i)
    \/ \E r \in modalReqs : ModalFetchSettles(r)
    \/ \E r \in modalReqs : ModalTextSettles(r)

SpecClicks == InitClicks /\ [][NextClicks]_vars

---------------------------------------------------------------------------
(* SpecCursor: the pointer over the page with a published list *)

\* the page after the loading screen, with a dark theme stored by the
\* effect of useDarkMode, a wide window, the particles script appended
\* and the listeners of Cursor attached in the commit that mounted it,
\* where Projects still rendered its loading message
AppMounted ==
    /\ appIsLoading = FALSE
    /\ theme = Dark
    /\ storedTheme = Dark
    /\ dataTheme = Dark
    /\ themePending = FALSE
    /\ innerWidth = 1024
    /\ particleCount = CountFor(1024)
    /\ libLoaded = FALSE
    /\ scriptRef = [onload |-> ParticlesConfig(Dark, CountFor(1024))]
    /\ nScripts = 1
    /\ lastConfig = NoValue
    /\ particlesPending = FALSE
    /\ isOpen = FALSE
    /\ scrolledTo = NoItem
    /\ listened = QuerySelectorAll(TRUE, <<>>, NoRepo)
    /\ pointerOver = NoItem
    /\ isHovering = FALSE
    /\ lastClick = NoItem

\* the pointer moves onto element e, or onto a place of the page that is
\* no link, button or card: mouseleave on the element it was over, then
\* mouseenter on e, each handled by the listener when one is attached
MovePointer(e) ==
    /\ e \in QuerySelectorAll(loading, repos, selectedRepo) \cup {Page}
    /\ e # pointerOver
    /\ pointerOver' = e
    /\ isHovering' = IF e \in listened THEN TRUE
                     ELSE IF pointerOver \in listened THEN FALSE
                     ELSE isHovering
    /\ UNCHANGED <<listened, appIsLoading, themeVars, particleVars, headerVars>>
    /\ UNCHANGED <<projectsVars, modalVars, fnVars, langVars>>
    /\ UNCHANGED lastClick

InitCursor ==
    /\ \E n \in 1..MaxModalRepos : Published(n) /\ LangRejected(n)
    /\ ModalInit
    /\ FnIdle
    /\ AppMounted

NextCursor ==
    \/ \E e \in StaticElements \cup ModalElements \cup {Page} : MovePointer(e)
    \/ \E i \in 1..MaxModalRepos : MovePointer(CardElement(i))
    \/ \E i \in 1..MaxModalRepos : ClickCard(i)
    \/ CloseModal
    \/ \E r \in modalReqs : ModalFetchSettles(r)
    \/ \E r \in modalReqs : ModalTextSettles(r)

SpecCursor == InitCursor /\ [][NextCursor]_vars

---------------------------------------------------------------------------
(* SpecLang: the languages requests of the cards of a published list *)

\* await fetch(languagesUrl) of card i returns or throws; on a throw the
\* catch logs and languages keeps its value
LangFetchSettles(i) ==
    /\ langReqs[i].st = "fetch"
    /\ \E out \in LanguagesOutcomes(repos[i]) :
          langReqs' = [langReqs EXCEPT ![i] = LangAfterFetch(out)]
    /\ UNCHANGED <<languages, projectsVars, modalVars, fnVars, appVars>>

\* await response.json() of card i returns or throws; setLanguages of the
\* first keys; on a throw the catch logs and languages keeps its value
LangJsonSettles(i) ==
    /\ langReqs[i].st = "json"
    /\ languages' = IF langReqs[i].resp[1].kind = "object"
                    THEN [languages EXCEPT ![i] = TopLanguages(langReqs[i].resp[1].data)]
                    ELSE languages
    /\ langReqs' = [langReqs EXCEPT ![i] = DoneLang(langReqs[i].resp)]
    /\ UNCHANGED <<projectsVars, modalVars, fnVars, appVars>>

\* the cards have just rendered: every languages request is in flight
CardsMounted(n) ==
    /\ languages = [i \in 1..n |-> <<>>]
    /\ langReqs = [i \in 1..n |-> PendingLang]

InitLang ==
    /\ \E n \in 1..MaxModalRepos : Published(n) /\ CardsMounted(n)
    /\ ModalInit
    /\ FnIdle
    /\ AppIdle

NextLang ==
    \/ \E i \in DOMAIN langReqs : LangFetchSettles(i)
    \/ \E i \in DOMAIN langReqs : LangJsonSettles(i)

SpecLang == InitLang /\ [][NextLang]_vars

---------------------------------------------------------------------------
(* SpecLister: the Lister's filter and truncation on every listing *)

InitLister ==
    /\ ProjectsInit
    /\ ModalInit
    /\ LangIdle
    /\ AppIdle
    /\ fnStep = "in"
    /\ fnIn \in {[listing |-> l] : l \in Listings}
    /\ fnOut = <<>>

ApplyLister ==
    /\ fnStep = "in"
    /\ fnStep' = "listed"
    /\ fnOut' = [reposData |-> NonForkSlice(fnIn.listing)]
    /\ UNCHANGED <<fnIn, projectsVars, modalVars, langVars, appVars>>

NextLister == ApplyLister

SpecLister == InitLister /\ [][NextLister]_vars

---------------------------------------------------------------------------
(* SpecRewrite: the image extraction and rewrites on every document *)

InitRewrite ==
    /\ ProjectsInit
    /\ ModalInit
    /\ LangIdle
    /\ AppIdle
    /\ fnStep = "in"
    /\ fnIn \in {[repo |-> r, doc |-> d] : r \in RewriteRepos, d \in Docs}
    /\ fnOut = <<>>

\* Projects.js: the urls of one readme
ApplyListUrls ==
    /\ fnStep = "in"
    /\ fnStep' = "list"
    /\ fnOut' = [urls |-> ListImageUrls(fnIn.repo, fnIn.doc)]
    /\ UNCHANGED <<fnIn, projectsVars, modalVars, langVars, appVars>>

\* the list-context rewrite applied to its own output
ApplyListAgain ==
    /\ fnStep = "list"
    /\ fnStep' = "list2"
    /\ fnOut' = [urls |-> fnOut.urls,
                 again |-> [k \in DOMAIN fnOut.urls |-> ListImageUrl(fnIn.repo, fnOut.urls[k])]]
    /\ UNCHANGED <<fnIn, projectsVars, modalVars, langVars, appVars>>

\* ProjectModal.js: the html of one readme
ApplyDetail ==
    /\ fnStep = "in"
    /\ fnStep' = "detail"
    /\ fnOut' = [threw |-> DetailThrows(fnIn.doc), html |-> DetailHtml(fnIn.repo, fnIn.doc)]
    /\ UNCHANGED <<fnIn, projectsVars, modalVars, langVars, appVars>>

\* the detail-context rewrite applied to its own output
ApplyDetailAgain ==
    /\ fnStep = "detail"
    /\ ~fnOut.threw
    /\ fnStep' = "detail2"
    /\ fnOut' = [threw |-> FALSE, html |-> fnOut.html,
                 again |-> DetailRewriteDoc(fnIn.repo, fnOut.html)]
    /\ UNCHANGED <<fnIn, projectsVars, modalVars, langVars, appVars>>

NextRewrite ==
    \/ ApplyListUrls
    \/ ApplyListAgain
    \/ ApplyDetail
    \/ ApplyDetailAgain

SpecRewrite == InitRewrite /\ [][NextRewrite]_vars

---------------------------------------------------------------------------
(* SpecApp: the theme, the particle background and the header of one page *)

InitApp ==
    /\ ProjectsInit
    /\ ModalInit
    /\ FnIdle
    /\ LangIdle
    /\ AppInit

NextApp ==
    \/ RunEffects
    \/ LoaderTimeout
    \/ ToggleTheme
    \/ \E w \in Widths : Resize(w)
    \/ ScriptLoads
    \/ ClickHamburger
    \/ \E id \in NavIds, found \in BOOLEAN : ClickNavLink(id, found)

SpecApp == InitApp /\ [][NextApp]_vars

---------------------------------------------------------------------------
(* SpecHeaders: the headers of the four requests for every configured token *)

\* process.env.REACT_APP_GITHUB_TOKEN: undefined, or the configured string
EnvUndefined == [defined |-> FALSE, value |-> <<>>]

EnvValue(v) == [defined |-> TRUE, value |-> v]

TokenChars == {"g", "h", "p", "_"}

Tokens ==
    {EnvUndefined} \cup
        UNION {{EnvValue(v) : v \in [1..n -> TokenChars]} : n \in 0..MaxTokenLen}

\* ${...} of a template literal: the string conversion of the value
TemplateString(env) ==
    IF env.defined THEN env.value ELSE <<"u", "n", "d", "e", "f", "i", "n", "e", "d">>

\* `token ${process.env.REACT_APP_GITHUB_TOKEN}`
AuthorizationValue(env) == <<"t", "o", "k", "e", "n", " ">> \o TemplateString(env)

\* the headers object of a fetch call
Headers(env, accept) ==
    {[name |-> "Authorization", value |-> AuthorizationValue(env)]}
        \cup {[name |-> "Accept", value |-> a] : a \in accept}

HtmlJson == "application/vnd.github.v3.html+json"

ListingHeaders(env) == Headers(env, {})

ReadmeHeaders(env) == Headers(env, {HtmlJson})

DetailHeaders(env) == Headers(env, {HtmlJson})

LanguagesHeaders(env) == Headers(env, {})

InitHeaders ==
    /\ ProjectsInit
    /\ ModalInit
    /\ LangIdle
    /\ AppIdle
    /\ fnStep = "in"
    /\ fnIn \in {[token |-> t] : t \in Tokens}
    /\ fnOut = <<>>

\* Projects.js: the listing request
ApplyListingHeaders ==
    /\ fnStep = "in"
    /\ fnStep' = "listing"
    /\ fnOut' = [headers |-> ListingHeaders(fnIn.token)]
    /\ UNCHANGED <<fnIn, projectsVars, modalVars, langVars, appVars>>

\* Projects.js: the readme request of the list context
ApplyReadmeHeaders ==
    /\ fnStep = "in"
    /\ fnStep' = "readme"
    /\ fnOut' = [headers |-> ReadmeHeaders(fnIn.token)]
    /\ UNCHANGED <<fnIn, projectsVars, modalVars, langVars, appVars>>

\* ProjectModal.js: the readme request of the detail view
ApplyDetailHeaders ==
    /\ fnStep = "in"
    /\ fnStep' = "detailReadme"
    /\ fnOut' = [headers |-> DetailHeaders(fnIn.token)]
    /\ UNCHANGED <<fnIn, projectsVars, modalVars, langVars, appVars>>

\* RepoLanguages: the languages request
ApplyLanguagesHeaders ==
    /\ fnStep = "in"
    /\ fnStep' = "languages"
    /\ fnOut' = [headers |-> LanguagesHeaders(fnIn.token)]
    /\ UNCHANGED <<fnIn, projectsVars, modalVars, langVars, appVars>>

NextHeaders ==
    \/ ApplyListingHeaders
    \/ ApplyReadmeHeaders
    \/ ApplyDetailHeaders
    \/ ApplyLanguagesHeaders

SpecHeaders == InitHeaders /\ [][NextHeaders]_vars

---------------------------------------------------------------------------
(* Vocabulary of the claims *)

Letters ==
    {"a", "b", "c", "d", "e", "f", "g", "h", "i", "j", "k", "l", "m", "n", "o", "p",
     "q", "r", "s", "t", "u", "v", "w", "x", "y", "z"}

SchemeChars == Letters \cup {"0", "1", "2", "3", "4", "5", "6", "7", "8", "9", "+", "-", "."}

\* an absolute URL starts with a scheme: a letter, then scheme characters, then ':'
HasScheme(s) ==
    \E i \in 2..Len(s) :
        /\ s[i] = ":"
        /\ s[1] \in Letters
        /\ \A j \in 1..(i - 1) : s[j] \in SchemeChars

IsRelativePath(s) == ~HasScheme(s)

\* p with a leading './' or a leading '/' stripped
StripDotSlashOrSlash(p) ==
    IF Len(p) >= 2 /\ p[1] = "." /\ p[2] = "/" THEN SubSeq(p, 3, Len(p))
    ELSE IF Len(p) >= 1 /\ p[1] = "/" THEN SubSeq(p, 2, Len(p))
    ELSE p

BranchOrMain(repo) == IF repo.default_branch = <<>> THEN <<"m", "a", "i", "n">> ELSE repo.default_branch

RawContentUrl(owner, repo, p) ==
    RawHost \o owner \o <<"/">> \o repo.name \o <<"/">> \o BranchOrMain(repo) \o <<"/">> \o p

\* the positions of the images of a document that have a source containing '/assets/'
Qualifying(doc) ==
    {i \in DOMAIN doc : doc[i].tag = "img" /\ doc[i].hasSrc /\ Includes(doc[i].src, AssetsSeg)}

Rank(S, i) == Cardinality({j \in S : j <= i})

NonForkPositions(l) == {i \in DOMAIN l : ~l[i].fork}

---------------------------------------------------------------------------
(* C1: the list handed on for readme fetching holds exactly the non-fork  *)
(* records of the listing, in the order received, cut to the first six;   *)
(* no fork is in it.                                                      *)
C1_ListerNonForksFirstSix ==
    fnStep = "listed" =>
        LET l == fnIn.listing
            out == fnOut.reposData
            nf == NonForkPositions(l)
        IN  /\ Len(out) = (IF Cardinality(nf) < 6 THEN Cardinality(nf) ELSE 6)
            /\ \A k \in DOMAIN out : ~out[k].fork
            /\ \A i \in nf : Rank(nf, i) <= 6 => out[Rank(nf, i)] = l[i]

\* a listing of 8 non-forks and 2 forks has been cut to 6
C1_Witness ==
    /\ fnStep = "listed"
    /\ Len(fnIn.listing) = 10
    /\ Cardinality(NonForkPositions(fnIn.listing)) = 8
    /\ fnIn.listing[1].fork
    /\ Len(fnOut.reposData) = 6

(* C5: in the list context every retained relative path p becomes the raw *)
(* content URL of owner, name and default branch (or main) followed by p  *)
(* with a leading './' or '/' stripped.                                   *)
C5_ListRewriteOfRelativePaths ==
    fnStep = "list" =>
        LET q == Qualifying(fnIn.doc)
        IN  \A i \in q :
                IsRelativePath(fnIn.doc[i].src) =>
                    /\ Rank(q, i) \in DOMAIN fnOut.urls
                    /\ fnOut.urls[Rank(q, i)] =
                           RawContentUrl(GITHUB_USERNAME, fnIn.repo,
                                         StripDotSlashOrSlash(fnIn.doc[i].src))

(* C6: in the list context a retained image whose source is already an    *)
(* absolute URL appears in imageUrls unchanged.                           *)
C6_ListKeepsAbsoluteSources ==
    fnStep = "list" =>
        LET q == Qualifying(fnIn.doc)
        IN  \A i \in q :
                HasScheme(fnIn.doc[i].src) =>
                    /\ Rank(q, i) \in DOMAIN fnOut.urls
                    /\ fnOut.urls[Rank(q, i)] = fnIn.doc[i].src

(* C7: rewriting is idempotent in the list context and in the detail      *)
(* context: rewriting the output of a rewrite gives that same output.     *)
C7_RewriteIdempotent ==
    /\ fnStep = "list2" => fnOut.again = fnOut.urls
    /\ fnStep = "detail2" => fnOut.again = fnOut.html

(* C8: the urls of a readme in the list context are one per image that    *)
(* has a source containing '/assets/', in document order; other images    *)
(* contribute nothing.                                                    *)
C8_ListFilterKeepsAssetsImages ==
    fnStep = "list" =>
        LET q == Qualifying(fnIn.doc)
        IN  /\ Len(fnOut.urls) = Cardinality(q)
            /\ \A i \in q : fnOut.urls[Rank(q, i)] = ListImageUrl(fnIn.repo, fnIn.doc[i].src)

\* two qualifying images around one that does not qualify
C8_Witness ==
    /\ fnStep = "list"
    /\ Len(fnIn.doc) = 3
    /\ Qualifying(fnIn.doc) = {1, 3}
    /\ fnIn.doc[2].tag = "img"
    /\ fnIn.doc[2].hasSrc
    /\ Len(fnOut.urls) = 2

(* C9: in the detail context every image of the document is processed: a  *)
(* relative source becomes the raw content URL with a leading './' or '/' *)
(* stripped, an absolute source is unchanged, the rest is preserved       *)
(* (stated for the documents whose images all have a source).             *)
C9_DetailRewritesEveryImage ==
    (fnStep = "detail" /\ \A i \in DOMAIN fnIn.doc : fnIn.doc[i].tag = "img" => fnIn.doc[i].hasSrc) =>
        /\ Len(fnOut.html) = Len(fnIn.doc)
        /\ \A i \in DOMAIN fnIn.doc :
              LET e == fnIn.doc[i]
              IN  IF e.tag = "img" /\ e.hasSrc
                  THEN fnOut.html[i] =
                          Img(IF IsRelativePath(e.src)
                              THEN RawContentUrl(fnIn.repo.owner, fnIn.repo,
                                                 StripDotSlashOrSlash(e.src))
                              ELSE e.src)
                  ELSE fnOut.html[i] = e

(* C10: no image source of a rewritten readme document shown in the       *)
(* detail view is a relative path.                                        *)
C10_NoRelativeSourceDisplayed ==
    (fnStep = "detail" /\ ~fnOut.threw) =>
        \A i \in DOMAIN fnOut.html :
            (fnOut.html[i].tag = "img" /\ fnOut.html[i].hasSrc)
                => ~IsRelativePath(fnOut.html[i].src)

---------------------------------------------------------------------------
(* Claims about the mount of Projects and about the detail view *)

\* a readme request failed: no response, a non-success status, or a body
\* that could not be read
RequestFailed(slot) ==
    \/ slot.resp = <<>>
    \/ ~slot.resp[1].ok
    \/ slot.fail = "text"

\* what the detail view may show for a repository: the placeholder, or a
\* rewritten body that the remote sent for that repository
DisplayableFor(repo) ==
    {Placeholder} \cup {DetailHtml(repo, d) : d \in ReadmeDocs(repo) \cup {ErrorDoc}}

(* C2: once another repository is selected, the late result of the        *)
(* previous selection's readme request does not overwrite the displayed   *)
(* document: what the open detail view shows belongs to the selected      *)
(* repository.                                                            *)
C2_NoStaleReadmeOverwrite ==
    (selectedRepo # NoRepo /\ ~modalLoading) => readmeHtml \in DisplayableFor(selectedRepo)

(* C3: the list is published at most once per mount, and only after every *)
(* readme fetch of the batch has settled: while one is pending the        *)
(* published list is empty and the view is loading.                       *)
C3_PublishedOnceWhenAllSettled ==
    /\ nSetRepos <= 1
    /\ nSetRepos = 0 => repos = <<>>
    /\ nSetRepos = 1 => Len(repos) = Len(reposData)
    /\ (\E i \in DOMAIN slots : slots[i].st # "settled") =>
            (nSetRepos = 0 /\ repos = <<>> /\ loading)

\* a batch of three has been published
C3_Witness ==
    /\ nSetRepos = 1
    /\ Len(repos) = 3
    /\ \A i \in DOMAIN slots : slots[i].st = "settled"
    /\ \E i \in DOMAIN slots : slots[i].fail = "text"

(* C4: a repository whose readme request failed is in the published list  *)
(* with an empty image set, and every other repository of the batch has   *)
(* the image set of its own readme.                                       *)
C4_FailedReadmeKeepsRepository ==
    (pc = "done" /\ repoResponse # <<>> /\ repoResponse[1].kind = "list") =>
        /\ Len(repos) = Len(reposData)
        /\ \A i \in DOMAIN reposData :
              /\ repos[i].id = reposData[i].id
              /\ repos[i].imageUrls =
                    (IF RequestFailed(slots[i]) THEN <<>>
                     ELSE ListImageUrls(reposData[i], slots[i].resp[1].doc))

\* one readme of the batch failed and another one contributed images
C4_Witness ==
    /\ pc = "done"
    /\ Len(repos) >= 2
    /\ \E i, j \in DOMAIN repos :
          /\ RequestFailed(slots[i])
          /\ repos[i].imageUrls = <<>>
          /\ ~RequestFailed(slots[j])
          /\ repos[j].imageUrls # <<>>

---------------------------------------------------------------------------
(* Claims about failed requests *)

(* C11: whenever the readme request of the detail view fails (no          *)
(* response, or a response with a non-success status, whether or not its  *)
(* body can be read), the document displayed when the request settles is  *)
(* the fixed placeholder and not the body of the failed response.         *)
C11_FailedReadmeShowsPlaceholder ==
    [][\A r \in modalReqs :
          (/\ r \notin modalReqs'
           /\ \/ r.st = "fetch" /\ ~\E q \in modalReqs' : q.n = r.n
              \/ r.st = "text" /\ ~r.resp[1].ok)
          => readmeHtml' = Placeholder]_vars

\* the listing request has failed: it was rejected, or its response has a
\* non-success status or a body that is not a JSON list
ListingRequestFailed ==
    \/ pc = "done" /\ repoResponse = <<>>
    \/ repoResponse # <<>> /\ (~repoResponse[1].ok \/ repoResponse[1].kind # "list")

EmptySuccessView == ProjectsRender(FALSE, <<>>, NoRepo)

(* C13: after a failed listing request the view is in an error state that *)
(* can be told from the view after a successful listing of zero           *)
(* repositories.                                                          *)
C13_ListingFailureDistinguishable ==
    (pc = "done" /\ ListingRequestFailed) =>
        ProjectsRender(loading, repos, selectedRepo) # EmptySuccessView

---------------------------------------------------------------------------
(* Claims about the language tags *)

\* fetchLanguages of card i has returned from a success response whose
\* body is a mapping
LanguagesLoaded(i) ==
    /\ langReqs[i].st = "done"
    /\ langReqs[i].resp # <<>>
    /\ langReqs[i].resp[1].ok
    /\ langReqs[i].resp[1].kind = "object"

(* C14: after a successful languages response the tag list of the card is *)
(* the first three keys of the mapping in the order of the response, all  *)
(* of them when there are fewer than three, and never more than three;    *)
(* for an empty mapping the list is empty and nothing is rendered.        *)
C14_TagsAreFirstThreeKeys ==
    \A i \in DOMAIN langReqs :
        LanguagesLoaded(i) =>
            LET data == langReqs[i].resp[1].data
                n == IF Len(data) < 3 THEN Len(data) ELSE 3
            IN  /\ Len(languages[i]) = n
                /\ Len(languages[i]) <= 3
                /\ \A k \in 1..n : languages[i][k] = data[k].key
                /\ data = <<>> =>
                      (languages[i] = <<>> /\ RenderLanguages(languages[i]) = <<>>)
                /\ data # <<>> => RenderLanguages(languages[i]) = <<[ul |-> languages[i]]>>

\* one card has loaded a mapping of more than three languages and another
\* card an empty mapping
C14_Witness ==
    \E i, j \in DOMAIN langReqs :
        /\ LanguagesLoaded(i)
        /\ Len(langReqs[i].resp[1].data) > 3
        /\ Len(languages[i]) = 3
        /\ LanguagesLoaded(j)
        /\ langReqs[j].resp[1].data = <<>>
        /\ languages[j] = <<>>

\* fetchLanguages of card i has returned from a failed request: no
\* response, a non-success status, or a body that is not JSON
LanguagesFailed(i) ==
    /\ langReqs[i].st = "done"
    /\ \/ langReqs[i].resp = <<>>
       \/ ~langReqs[i].resp[1].ok
       \/ langReqs[i].resp[1].kind = "invalid"

(* C15: after a failed languages request the tag list of the card is      *)
(* empty: it holds no key of the body of an error response.               *)
C15_FailedLanguagesLeaveNoTags ==
    \A i \in DOMAIN langReqs : LanguagesFailed(i) => languages[i] = <<>>

---------------------------------------------------------------------------
(* Claims about the requests of the detail view *)

\* the readme request issued for the current selection has not settled
SelectionPending ==
    /\ selectedRepo # NoRepo
    /\ \E r \in modalReqs : r.n = nSelects

(* C16: in every state where a repository is selected and the readme      *)
(* request issued for that selection has not settled, the detail view is  *)
(* pending: it shows the loading indicator and no readme document.        *)
C16_PendingWhileRequestInFlight ==
    SelectionPending =>
        /\ modalLoading
        /\ ModalRender(selectedRepo, modalLoading, readmeHtml)[1].body
                = <<Text("Loading README...")>>

\* the fetchReadme calls that a step starts
Started == {r \in modalReqs' : ~\E q \in modalReqs : q.n = r.n}

(* C17: while no repository is selected the detail view renders nothing   *)
(* and no readme request is started; every change of the selection to a   *)
(* repository, a re-selection after closing included, starts exactly one  *)
(* readme request, for that repository, and no other step starts one.     *)
C17_IdleAndRefetch ==
    /\ [](selectedRepo = NoRepo => ModalRender(selectedRepo, modalLoading, readmeHtml) = <<>>)
    /\ [][IF selectedRepo' # selectedRepo /\ selectedRepo' # NoRepo
          THEN \E r \in Started :
                  /\ Started = {r}
                  /\ r.repo = selectedRepo'
                  /\ r.st = "fetch"
          ELSE Started = {}]_vars

\* a repository was selected again after closing, and its second request
\* is in flight beside the first
C17_Witness ==
    /\ selectedRepo # NoRepo
    /\ nSelects = 2
    /\ \E q, r \in modalReqs :
          /\ q.n = 1 /\ q.repo = selectedRepo
          /\ r.n = 2 /\ r.repo = selectedRepo /\ r.st = "fetch"

---------------------------------------------------------------------------
(* Claims about retries and about failures that escape *)

\* how often promise i occurs in the order of settlement
TimesSettled(i) == Cardinality({k \in DOMAIN settleOrder : settleOrder[k] = i})

LanguagesRequestedOnce ==
    [][\A i \in DOMAIN langReqs :
          /\ i \in DOMAIN langReqs'
          /\ langReqs[i].st = "done" => (langReqs'[i] = langReqs[i] /\ languages'[i] = languages[i])
          /\ langReqs'[i] # langReqs[i] =>
                \/ langReqs[i].st = "fetch" /\ langReqs'[i].st \in {"json", "done"}
                \/ langReqs[i].st = "json" /\ langReqs'[i].st = "done"]_vars

DetailFailureHandled ==
    (modalReqs = {} /\ nSelects > 0) =>
        /\ ~modalLoading
        /\ \E r \in DOMAIN repos : readmeHtml \in DisplayableFor(repos[r])

\* SpecLang: once fetchLanguages of a card has returned, its tags are a
\* list of at most three keys, empty after a rejected request or an
\* unreadable body
LanguagesFailureHandled ==
    \A i \in DOMAIN langReqs :
        langReqs[i].st = "done" =>
            /\ Len(languages[i]) <= 3
            /\ (langReqs[i].resp = <<>> \/ langReqs[i].resp[1].kind = "invalid")
                  => RenderLanguages(languages[i]) = <<>>

---------------------------------------------------------------------------
(* Claims about the concurrent readme requests *)

\* the image urls that can come from the readme response of promise i
OwnImageUrls(i) ==
    {<<>>} \cup (IF slots[i].resp = <<>> THEN {}
                 ELSE {ListImageUrls(reposData[i], slots[i].resp[1].doc)})

(* C20: for every order in which the concurrent readme responses arrive,  *)
(* the published list holds the repositories in the order of the Lister,  *)
(* and the image urls of each entry derive only from the readme response  *)
(* of that entry's own repository.                                        *)
C20_SlotsIndependentOfArrival ==
    nSetRepos = 1 =>
        /\ DOMAIN repos = DOMAIN reposData
        /\ \A i \in DOMAIN repos :
              /\ repos[i].id = reposData[i].id
              /\ repos[i].name = reposData[i].name
              /\ repos[i].imageUrls \in OwnImageUrls(i)
              /\ \A k \in DOMAIN repos[i].imageUrls :
                    StartsWith(repos[i].imageUrls[k],
                               RawContentUrl(repos[i].owner, repos[i], <<>>))

\* the readme responses arrived in the reverse of the Lister's order, and
\* the first and the last entry of the published list have images
C20_Witness ==
    /\ nSetRepos = 1
    /\ Len(repos) = 3
    /\ settleOrder = <<3, 2, 1>>
    /\ repos[1].imageUrls # <<>>
    /\ repos[3].imageUrls # <<>>
    /\ repos[1].imageUrls # repos[3].imageUrls

---------------------------------------------------------------------------
(* Claims about the credential *)

(* C21: when no access token is configured, the listing, readme and       *)
(* languages requests carry no Authorization header.                      *)
C21_NoTokenNoAuthorization ==
    (fnStep \in {"listing", "readme", "detailReadme", "languages"} /\ ~fnIn.token.defined) =>
        ~\E h \in fnOut.headers : h.name = "Authorization"

---------------------------------------------------------------------------
(* Claims about the theme *)

\* the page has just started: App shows the loading screen and no effect
\* has run, so the storage still holds what it held before the start
AtStart == appIsLoading /\ themePending

(* C22: once the effect of the latest theme value has run, the item       *)
(* 'theme' of the local storage and the attribute data-theme of the       *)
(* document root both equal the current theme; on start the theme is the  *)
(* stored value, or 'dark' when nothing is stored.                        *)
C22_ThemePersisted ==
    /\ ~themePending => (storedTheme = theme /\ dataTheme = theme)
    /\ AtStart => theme = (IF storedTheme = NoItem THEN "dark" ELSE storedTheme)

(* C22, amended: as C22, but on start the theme is the stored value when  *)
(* that is a non-empty string, and 'dark' when nothing or the empty       *)
(* string is stored.                                                      *)
C22_ThemePersistedOrDefault ==
    /\ ~themePending => (storedTheme = theme /\ dataTheme = theme)
    /\ AtStart => theme = (IF storedTheme \in {NoItem, ""} THEN "dark" ELSE storedTheme)

\* the theme was toggled to 'light' after the particle background mounted
\* under another theme, and the effect of the new value has run
C22_Witness ==
    /\ ~appIsLoading
    /\ ~themePending
    /\ theme = "light" /\ storedTheme = "light" /\ dataTheme = "light"
    /\ scriptRef # NoValue
    /\ scriptRef.onload.color # ColorsFor("light")

---------------------------------------------------------------------------
(* Claims about the loading indicator *)

(* C23: if every issued request settles, the Projects view eventually     *)
(* leaves the loading state, on the success path and on every failure     *)
(* path, and once loading is false it never becomes true again.           *)
C23_LoadingEventuallyCleared ==
    /\ <>(~loading)
    /\ [][~loading => ~loading']_vars

\* the loading state was left on the success path: two repositories
\* published, both with their readme read
C23_Witness ==
    /\ ~loading
    /\ nSetRepos = 1
    /\ Len(repos) = 2
    /\ \A i \in DOMAIN slots : slots[i].fail = ""

(* C24: in every reachable state the current theme is 'light' or 'dark',  *)
(* whatever the local storage held under 'theme' at the start, and each   *)
(* toggle maps 'light' to 'dark' and 'dark' to 'light'.                   *)
C24_ThemeIsLightOrDark ==
    /\ [](theme \in {"light", "dark"})
    /\ [][theme' # theme =>
            \/ theme = "light" /\ theme' = "dark"
            \/ theme = "dark" /\ theme' = "light"]_vars

(* C25: once the particle library has loaded and every pending effect has *)
(* run, the configuration most recently passed to the library has the     *)
(* colours of the current theme and the current particle count, also when *)
(* the theme or the window size changed while the script was loading.     *)
C25_ParticlesFollowTheme ==
    (libLoaded /\ ~themePending /\ ~particlesPending)
        => lastConfig = ParticlesConfig(theme, particleCount)

(* C26: one ParticleBackground appends the particles script to the        *)
(* document at most once, however often its effect runs again before the  *)
(* library has loaded.                                                    *)
C26_ScriptAppendedAtMostOnce == nScripts <= 1

\* the effect ran again for a new theme or count while the one script it
\* had appended was still loading
C26_Witness ==
    /\ nScripts = 1
    /\ ~libLoaded
    /\ ~particlesPending
    /\ scriptRef # NoValue
    /\ scriptRef.onload # ParticlesConfig(theme, particleCount)

(* C27: the cursor's hover flag becomes true when the pointer enters any  *)
(* link, button or project card and false when it leaves onto a place     *)
(* that is none of these, including the cards and the modal's buttons     *)
(* that were added to the page after Cursor mounted.                      *)
C27_HoverFollowsPointer ==
    [][pointerOver' # pointerOver => isHovering' = (pointerOver' # Page)]_vars

(* C28: the selected repository changes only by a user's click: a click   *)
(* on a card selects that card's repository; a click on the backdrop or   *)
(* on either close button selects none; a click inside the modal's        *)
(* content or on a card's carousel leaves the selection unchanged; and no *)
(* completion of a request changes the selection or the published list.   *)
C28_SelectionChangesOnlyByClick ==
    [][/\ \A i \in DOMAIN repos :
            /\ Click("card", i) => selectedRepo' = repos[i]
            /\ Click("carousel", i) => selectedRepo' = selectedRepo
            /\ \A t \in {"backdrop", "closeButton", "closeButtonBottom"} :
                  Click(t, i) => selectedRepo' = NoRepo
            /\ \A t \in {"modalContent", "githubLink"} :
                  Click(t, i) => selectedRepo' = selectedRepo
       /\ (\E r \in modalReqs : ModalFetchSettles(r) \/ ModalTextSettles(r))
            => (selectedRepo' = selectedRepo /\ repos' = repos)
       /\ selectedRepo' # selectedRepo
            => \E t \in ClickTargets, i \in DOMAIN repos : Click(t, i)
       /\ repos' = repos]_vars

\* two cards were opened and closed, every request has returned, and the
\* last click, on the carousel of a card, selected nothing
C28_Witness ==
    /\ lastClick = "carousel"
    /\ selectedRepo = NoRepo
    /\ nSelects = 2
    /\ modalReqs = {}
    /\ readmeHtml # <<>>

(* C29: the mobile menu starts closed; a click on the hamburger flips it; *)
(* a click on a navigation button leaves it closed, whether or not the    *)
(* target section exists; a click on the theme switcher leaves it as it   *)
(* was.                                                                   *)
C29_MobileMenu ==
    /\ [](appIsLoading => ~isOpen)
    /\ [](lastClick = "navButton" => ~isOpen)
    /\ [][/\ ClickHamburger => isOpen' = ~isOpen
          /\ ToggleTheme => isOpen' = isOpen
          /\ \A id \in NavIds, found \in BOOLEAN : ClickNavLink(id, found) => ~isOpen']_vars

\* the last click was on a navigation button whose section was not found,
\* as for every navigation click before it, and the menu is closed
C29_Witness ==
    /\ lastClick = "navButton"
    /\ scrolledTo = NoItem
    /\ ~isOpen
    /\ ~appIsLoading

=============================================================================
